---- MODULE Spec2Model ----
(***************************************************************************)
(* Model of wgpu/src/triangle.rs: the growable Buffer<T> and the triangle  *)
(* Pipeline, whose draw method batches a list of (origin, mesh) items into *)
(* three persistent buffers and records one indexed draw per item.         *)
(*                                                                         *)
(* A Mesh2D is represented by the lengths of its `vertices` and `indices`  *)
(* vectors and an identity tag: draw only reads the two lengths and hands  *)
(* the slices as a whole to the staging buffers.                           *)
(***************************************************************************)
EXTENDS Integers, Sequences, FiniteSets, TLC

\* ---------------------------------------------------------------- constants
UNIFORM_BUFFER_SIZE == 100
VERTEX_BUFFER_SIZE == 100000
INDEX_BUFFER_SIZE == 100000

SizeOfUniforms == 64
SizeOfVertex2D == 24
SizeOfU32 == 4

\* ------------------------------------------------------------------- bounds
\* longest item list built freely from Items
MaxItems == 2
\* item lists of UNIFORM_BUFFER_SIZE + 1 .. UNIFORM_BUFFER_SIZE + MaxGrow items
MaxGrow == 1

\* --------------------------------------------------------- Transformation
\* A Transformation is a 4x4 matrix, kept row by row in a sequence of 16.
Identity ==
  << 1, 0, 0, 0,
     0, 1, 0, 0,
     0, 0, 1, 0,
     0, 0, 0, 1 >>

Translate(x, y) ==
  << 1, 0, 0, x,
     0, 1, 0, y,
     0, 0, 1, 0,
     0, 0, 0, 1 >>

At(m, r, c) == m[4 * (r - 1) + c]

Mul(a, b) ==
  [k \in 1..16 |->
     LET r == ((k - 1) \div 4) + 1
         c == ((k - 1) % 4) + 1
     IN  At(a, r, 1) * At(b, 1, c) + At(a, r, 2) * At(b, 2, c)
       + At(a, r, 3) * At(b, 3, c) + At(a, r, 4) * At(b, 4, c)]

\* --------------------------------------------------------------- inputs
Mesh2D(id, nv, ni) == [id |-> id, vertices |-> nv, indices |-> ni]

MeshA == Mesh2D("a", 3, 3)
MeshB == Mesh2D("b", 4, 6)
MeshC == Mesh2D("c", 60000, 90000)

Point(x, y) == [x |-> x, y |-> y]

ItemA == << Point(10, 20), MeshA >>
ItemB == << Point(0, 5), MeshB >>
ItemC == << Point(7, 1), MeshC >>

Items == { ItemA, ItemB }

RECURSIVE SeqsUpTo(_, _)
SeqsUpTo(S, n) ==
  IF n = 0 THEN { <<>> }
  ELSE LET shorter == SeqsUpTo(S, n - 1)
       IN  shorter \cup { Append(s, x) : s \in shorter, x \in S }

\* a list whose vertices and indices outgrow the initial buffers
HeavyList == << ItemC, ItemA, ItemC >>

\* a list of n items, which outgrows the initial uniform buffer
LongList(n) ==
  [k \in 1..n |-> IF k % 2 = 1 THEN << Point(k, 2), MeshA >>
                               ELSE << Point(3, k), MeshB >>]

\* the item lists drawn: every list of up to MaxItems items, the heavy list
\* and the lists of UNIFORM_BUFFER_SIZE + 1 .. UNIFORM_BUFFER_SIZE + MaxGrow
\* items
MeshLists ==
  SeqsUpTo(Items, MaxItems)
    \cup { HeavyList }
    \cup { LongList(UNIFORM_BUFFER_SIZE + g) : g \in 1..MaxGrow }

Rectangle(x, y, w, h) == [x |-> x, y |-> y, width |-> w, height |-> h]

\* the frames drawn: global transformation, target size and clip rectangle
Frames ==
  { [transformation |-> Identity, target_width |-> 800, target_height |-> 600,
     bounds |-> Rectangle(0, 0, 800, 600)],
    [transformation |-> << 2, 0, 0, 1,
                           0, 3, 0, 0,
                           0, 0, 1, 0,
                           0, 0, 0, 1 >>,
     target_width |-> 64, target_height |-> 48,
     bounds |-> Rectangle(1, 2, 30, 40)] }

\* Option<T>: None is the empty sequence, Some(v) the one-element sequence
None == << >>
Some(v) == << v >>
Unwrap(o) == o[1]

\* settings::Antialiasing, by its sample count
Antialiasings == { 2, 4 }

Target == [view |-> "target"]

VARIABLES
  antialiasing,      \* the Option<Antialiasing> the pipeline was built with
  pipeline,          \* the render pipeline: its sample count
  blit,              \* None or Some(msaa::Blit)
  constants,         \* the uniform bind group: the allocation it binds
  uniforms_buffer,   \* Buffer<Uniforms>: [raw, size]
  vertex_buffer,     \* Buffer<Vertex2D>
  index_buffer,      \* Buffer<u32>
  allocated,         \* device: number of buffers created by create_buffer
  pc,                \* position of the draw call in progress
  target_width, target_height, transformation, meshes, bounds,
  total_vertices, total_indices,
  uniforms, offsets, last_vertex, last_index,
  i,                 \* enumerate() index of the render loop
  encoder            \* commands recorded by the current draw call

vars ==
  << antialiasing, pipeline, blit, constants, uniforms_buffer, vertex_buffer, index_buffer,
     allocated, pc, target_width, target_height, transformation, meshes,
     bounds, total_vertices, total_indices, uniforms, offsets, last_vertex,
     last_index, i, encoder >>

pipelineVars == << antialiasing, pipeline, blit, constants >>
bufferVars == << uniforms_buffer, vertex_buffer, index_buffer, allocated >>
paramVars ==
  << target_width, target_height, transformation, meshes, bounds >>
totalVars == << total_vertices, total_indices >>
localVars == << uniforms, offsets, last_vertex, last_index >>

\* ----------------------------------------------------------------- Buffer
\* Buffer::new: a fresh allocation, numbered by the device
BufferNew(id, size) == [raw |-> id, size |-> size]

\* ensure_capacity reallocating also when the capacity is exactly enough
EnsureCapacityLe(buf, id, size) ==
  IF buf.size <= size THEN [raw |-> id, size |-> size] ELSE buf

\* ensure_capacity resizing to the requested size whenever it differs
EnsureCapacityResize(buf, id, size) ==
  IF buf.size # size THEN [raw |-> id, size |-> size] ELSE buf

\* Buffer::ensure_capacity; `id` is the allocation create_buffer would return
EnsureCapacity(buf, id, size) ==
  IF buf.size < size THEN [raw |-> id, size |-> size] ELSE buf

\* --------------------------------------------------------------- Pipeline
\* lines 164-166
SampleCount(aa) ==
  IF aa = None THEN 1 ELSE Unwrap(aa)

BlitNew(a) == [sample_count |-> a]

\* Pipeline::new
Init ==
  \E aa \in { None } \cup { Some(a) : a \in Antialiasings } :
    /\ antialiasing = aa
    /\ pipeline = [sample_count |-> SampleCount(aa)]
    /\ blit = IF aa = None THEN None ELSE Some(BlitNew(Unwrap(aa)))
    /\ uniforms_buffer = BufferNew(0, UNIFORM_BUFFER_SIZE)
    /\ constants = [buffer |-> 0, range |-> <<0, SizeOfUniforms>>]
    /\ vertex_buffer = BufferNew(1, VERTEX_BUFFER_SIZE)
    /\ index_buffer = BufferNew(2, INDEX_BUFFER_SIZE)
    /\ allocated = 3
    /\ pc = "idle"
    /\ target_width = 0
    /\ target_height = 0
    /\ transformation = Identity
    /\ meshes = <<>>
    /\ bounds = Rectangle(0, 0, 0, 0)
    /\ total_vertices = 0
    /\ total_indices = 0
    /\ uniforms = <<>>
    /\ offsets = <<>>
    /\ last_vertex = 0
    /\ last_index = 0
    /\ i = 0
    /\ encoder = <<>>

\* the fold of lines 203-208 over items lo..hi of the list: the pair of the
\* summed vertices.len() and indices.len().  The range is summed by halves
\* (addition is associative), which keeps the evaluation shallow.
RECURSIVE Totals(_, _, _)
Totals(ms, lo, hi) ==
  IF lo > hi THEN << 0, 0 >>
  ELSE IF lo = hi THEN << ms[lo][2].vertices, ms[lo][2].indices >>
  ELSE LET mid == (lo + hi) \div 2
           l == Totals(ms, lo, mid)
           r == Totals(ms, mid + 1, hi)
       IN  << l[1] + r[1], l[2] + r[2] >>

\* Pipeline::draw is entered: parameters bound, totals counted
Draw ==
  /\ pc = "idle"
  /\ \E ms \in MeshLists, f \in Frames :
       /\ meshes' = ms
       /\ transformation' = f.transformation
       /\ target_width' = f.target_width
       /\ target_height' = f.target_height
       /\ bounds' = f.bounds
       /\ total_vertices' = Totals(ms, 1, Len(ms))[1]
       /\ total_indices' = Totals(ms, 1, Len(ms))[2]
  /\ pc' = "ensure_uniforms"
  /\ UNCHANGED << pipelineVars, bufferVars, localVars, i, encoder >>

\* line 212
EnsureUniforms ==
  /\ pc = "ensure_uniforms"
  /\ uniforms_buffer' = EnsureCapacity(uniforms_buffer, allocated, Len(meshes))
  /\ allocated' = IF uniforms_buffer' # uniforms_buffer THEN allocated + 1 ELSE allocated
  /\ pc' = "ensure_vertex"
  /\ UNCHANGED << pipelineVars, vertex_buffer, index_buffer, paramVars,
                  totalVars, localVars, i, encoder >>

\* the vertex buffer sized by the number of items
EnsureVertexByItems ==
  /\ pc = "ensure_vertex"
  /\ vertex_buffer' = EnsureCapacity(vertex_buffer, allocated, Len(meshes))
  /\ allocated' = IF vertex_buffer' # vertex_buffer THEN allocated + 1 ELSE allocated
  /\ pc' = "ensure_index"
  /\ UNCHANGED << pipelineVars, uniforms_buffer, index_buffer, paramVars,
                  totalVars, localVars, i, encoder >>

\* line 213
EnsureVertex ==
  /\ pc = "ensure_vertex"
  /\ vertex_buffer' = EnsureCapacity(vertex_buffer, allocated, total_vertices)
  /\ allocated' = IF vertex_buffer' # vertex_buffer THEN allocated + 1 ELSE allocated
  /\ pc' = "ensure_index"
  /\ UNCHANGED << pipelineVars, uniforms_buffer, index_buffer, paramVars,
                  totalVars, localVars, i, encoder >>

\* the index buffer sized by the number of items
EnsureIndexByItems ==
  /\ pc = "ensure_index"
  /\ index_buffer' = EnsureCapacity(index_buffer, allocated, Len(meshes))
  /\ allocated' = IF index_buffer' # index_buffer THEN allocated + 1 ELSE allocated
  /\ pc' = "locals"
  /\ UNCHANGED << pipelineVars, uniforms_buffer, vertex_buffer, paramVars,
                  totalVars, localVars, i, encoder >>

\* line 214
EnsureIndex ==
  /\ pc = "ensure_index"
  /\ index_buffer' = EnsureCapacity(index_buffer, allocated, total_indices)
  /\ allocated' = IF index_buffer' # index_buffer THEN allocated + 1 ELSE allocated
  /\ pc' = "locals"
  /\ UNCHANGED << pipelineVars, uniforms_buffer, vertex_buffer, paramVars,
                  totalVars, localVars, i, encoder >>

\* lines 216-223
Locals ==
  /\ pc = "locals"
  /\ uniforms' = <<>>
  /\ offsets' = <<>>
  /\ last_vertex' = 0
  /\ last_index' = 0
  /\ pc' = "upload"
  /\ UNCHANGED << pipelineVars, bufferVars, paramVars, totalVars, i, encoder >>

\* device.create_buffer_mapped(len, COPY_SRC).fill_from_slice(data)
Staging(len, data) == [len |-> len, data |-> data]

CopyBufferToBuffer(src, src_offset, dst, dst_offset, size) ==
  [op |-> "copy_buffer_to_buffer", src |-> src, src_offset |-> src_offset,
   dst |-> dst, dst_offset |-> dst_offset, size |-> size]

\* the translation applied after the global transformation
ItemTransformReversed(t, origin) == Mul(Translate(origin.x, origin.y), t)

\* the per-item transform of lines 227-231
ItemTransform(t, origin) == Mul(t, Translate(origin.x, origin.y))

\* destination offsets handed to the two per-item copies (lines 251, 259)
VertexCopyOffset(lv) == lv
IndexCopyOffset(li) == li

\* the triple recording the vertex count as the index count
OffsetTripleVertices(lv, li, mesh) == << lv, li, mesh.vertices >>

\* the triple pushed at lines 264-268
OffsetTriple(lv, li, mesh) == << lv, li, mesh.indices >>

\* the item the loop of line 226 visits after n iterations
IterNext(ms, n) == ms[n + 1]

\* the upload loop copying each item's Uniforms entry on its own
UploadItemWithUniforms ==
  /\ pc = "upload"
  /\ Len(uniforms) < Len(meshes)
  /\ LET item == IterNext(meshes, Len(uniforms))
         origin == item[1]
         mesh == item[2]
         vertex_staging == Staging(mesh.vertices, << mesh.id, "vertices" >>)
         index_staging == Staging(mesh.indices, << mesh.id, "indices" >>)
         transform == ItemTransform(transformation, origin)
     IN  /\ encoder' =
              encoder \o
                << CopyBufferToBuffer(vertex_staging, 0, vertex_buffer.raw,
                                      VertexCopyOffset(last_vertex),
                                      SizeOfVertex2D * mesh.vertices),
                   CopyBufferToBuffer(index_staging, 0, index_buffer.raw,
                                      IndexCopyOffset(last_index),
                                      SizeOfU32 * mesh.indices),
                   CopyBufferToBuffer(Staging(1, << transform >>), 0,
                                      uniforms_buffer.raw,
                                      SizeOfUniforms * Len(uniforms),
                                      SizeOfUniforms) >>
         /\ uniforms' = Append(uniforms, transform)
         /\ offsets' = Append(offsets, OffsetTriple(last_vertex, last_index, mesh))
         /\ last_vertex' = last_vertex + mesh.vertices
         /\ last_index' = last_index + mesh.indices
  /\ UNCHANGED << pipelineVars, bufferVars, paramVars, totalVars, i, pc >>

\* one iteration of the upload loop, lines 226-272
UploadItem ==
  /\ pc = "upload"
  /\ Len(uniforms) < Len(meshes)
  /\ LET item == IterNext(meshes, Len(uniforms))
         origin == item[1]
         mesh == item[2]
         vertex_staging == Staging(mesh.vertices, << mesh.id, "vertices" >>)
         index_staging == Staging(mesh.indices, << mesh.id, "indices" >>)
     IN  /\ encoder' =
              encoder \o
                << CopyBufferToBuffer(vertex_staging, 0, vertex_buffer.raw,
                                      VertexCopyOffset(last_vertex),
                                      SizeOfVertex2D * mesh.vertices),
                   CopyBufferToBuffer(index_staging, 0, index_buffer.raw,
                                      IndexCopyOffset(last_index),
                                      SizeOfU32 * mesh.indices) >>
         /\ uniforms' = Append(uniforms, ItemTransform(transformation, origin))
         /\ offsets' = Append(offsets, OffsetTriple(last_vertex, last_index, mesh))
         /\ last_vertex' = last_vertex + mesh.vertices
         /\ last_index' = last_index + mesh.indices
  /\ UNCHANGED << pipelineVars, bufferVars, paramVars, totalVars, i, pc >>

\* the uniform buffer recreated to fit at upload time
UploadUniformsRecreating ==
  /\ pc = "upload"
  /\ Len(uniforms) = Len(meshes)
  /\ uniforms_buffer' = BufferNew(allocated, Len(uniforms))
  /\ allocated' = allocated + 1
  /\ encoder' =
       Append(encoder,
              CopyBufferToBuffer(Staging(Len(uniforms), uniforms), 0,
                                 allocated, 0,
                                 SizeOfUniforms * Len(uniforms)))
  /\ pc' = "targets"
  /\ UNCHANGED << pipelineVars, vertex_buffer, index_buffer, paramVars,
                  totalVars, localVars, i >>

\* the uniform upload copying the whole buffer, whatever its capacity
UploadUniformsWholeBuffer ==
  /\ pc = "upload"
  /\ Len(uniforms) = Len(meshes)
  /\ encoder' =
       Append(encoder,
              CopyBufferToBuffer(Staging(Len(uniforms), uniforms), 0,
                                 uniforms_buffer.raw, 0,
                                 SizeOfUniforms * uniforms_buffer.size))
  /\ pc' = "targets"
  /\ UNCHANGED << pipelineVars, bufferVars, paramVars, totalVars, localVars, i >>

\* the uniform upload left out when there is nothing to upload
UploadUniformsUnlessEmpty ==
  /\ pc = "upload"
  /\ Len(uniforms) = Len(meshes)
  /\ encoder' =
       IF uniforms = <<>> THEN encoder
       ELSE Append(encoder,
                   CopyBufferToBuffer(Staging(Len(uniforms), uniforms), 0,
                                      uniforms_buffer.raw, 0,
                                      SizeOfUniforms * Len(uniforms)))
  /\ pc' = "targets"
  /\ UNCHANGED << pipelineVars, bufferVars, paramVars, totalVars, localVars, i >>

\* lines 274-284: the combined uniform upload
UploadUniforms ==
  /\ pc = "upload"
  /\ Len(uniforms) = Len(meshes)
  /\ encoder' =
       Append(encoder,
              CopyBufferToBuffer(Staging(Len(uniforms), uniforms), 0,
                                 uniforms_buffer.raw, 0,
                                 SizeOfUniforms * Len(uniforms)))
  /\ pc' = "targets"
  /\ UNCHANGED << pipelineVars, bufferVars, paramVars, totalVars, localVars, i >>

\* msaa::Blit::targets: the offscreen attachment and its resolve target
BlitTargets(b, width, height) ==
  << [view |-> "attachment", width |-> width, height |-> height,
      sample_count |-> b.sample_count],
     [view |-> "resolve", width |-> width, height |-> height,
      sample_count |-> 1] >>

\* the multisampled attachment loaded instead of cleared
AttachmentsLoad ==
  IF blit # None
    THEN LET ts == BlitTargets(Unwrap(blit), target_width, target_height)
         IN  << ts[1], Some(ts[2]), "Load" >>
    ELSE << Target, None, "Load" >>

\* lines 287-295
Attachments ==
  IF blit # None
    THEN LET ts == BlitTargets(Unwrap(blit), target_width, target_height)
         IN  << ts[1], Some(ts[2]), "Clear" >>
    ELSE << Target, None, "Load" >>

\* lines 286-314
BeginRenderPass ==
  /\ pc = "targets"
  /\ encoder' =
       Append(encoder,
              [op |-> "begin_render_pass", attachment |-> Attachments[1],
               resolve_target |-> Attachments[2], load_op |-> Attachments[3],
               store_op |-> "Store"])
  /\ i' = 0
  /\ pc' = "pass"
  /\ UNCHANGED << pipelineVars, bufferVars, paramVars, totalVars, localVars >>

\* the render loop binding the uniforms one entry too far
ItemCommandsOffByOne(n, triple) ==
  << [op |-> "set_pipeline", pipeline |-> pipeline],
     [op |-> "set_bind_group", index |-> 0, group |-> constants,
      dynamic_offset |-> SizeOfUniforms * (n + 1)],
     [op |-> "set_index_buffer", buffer |-> index_buffer.raw,
      offset |-> triple[2]],
     [op |-> "set_vertex_buffers", slot |-> 0, buffer |-> vertex_buffer.raw,
      offset |-> triple[1]],
     [op |-> "set_scissor_rect", x |-> bounds.x, y |-> bounds.y,
      width |-> bounds.width, height |-> bounds.height],
     [op |-> "draw_indexed", first_index |-> 0, end_index |-> triple[3],
      base_vertex |-> 0, first_instance |-> 0, end_instance |-> 1] >>

\* the render loop clipping to the whole target instead of the bounds
ItemCommandsWholeTarget(n, triple) ==
  << [op |-> "set_pipeline", pipeline |-> pipeline],
     [op |-> "set_bind_group", index |-> 0, group |-> constants,
      dynamic_offset |-> SizeOfUniforms * n],
     [op |-> "set_index_buffer", buffer |-> index_buffer.raw,
      offset |-> triple[2]],
     [op |-> "set_vertex_buffers", slot |-> 0, buffer |-> vertex_buffer.raw,
      offset |-> triple[1]],
     [op |-> "set_scissor_rect", x |-> 0, y |-> 0,
      width |-> target_width, height |-> target_height],
     [op |-> "draw_indexed", first_index |-> 0, end_index |-> triple[3],
      base_vertex |-> 0, first_instance |-> 0, end_instance |-> 1] >>

\* the six commands of one iteration of the render loop, lines 319-338
ItemCommands(n, triple) ==
  << [op |-> "set_pipeline", pipeline |-> pipeline],
     [op |-> "set_bind_group", index |-> 0, group |-> constants,
      dynamic_offset |-> SizeOfUniforms * n],
     [op |-> "set_index_buffer", buffer |-> index_buffer.raw,
      offset |-> triple[2]],
     [op |-> "set_vertex_buffers", slot |-> 0, buffer |-> vertex_buffer.raw,
      offset |-> triple[1]],
     [op |-> "set_scissor_rect", x |-> bounds.x, y |-> bounds.y,
      width |-> bounds.width, height |-> bounds.height],
     [op |-> "draw_indexed", first_index |-> 0, end_index |-> triple[3],
      base_vertex |-> 0, first_instance |-> 0, end_instance |-> 1] >>

\* the offsets consumed from the back
DrainNextBack(offs, n) == offs[Len(offs) - n]

\* the triple offsets.drain(..).enumerate() yields with index n (lines 316-317)
DrainNext(offs, n) == offs[n + 1]

\* one iteration of the render loop, lines 316-339
DrawItem ==
  /\ pc = "pass"
  /\ i < Len(offsets)
  /\ encoder' = encoder \o ItemCommands(i, DrainNext(offsets, i))
  /\ i' = i + 1
  /\ UNCHANGED << pipelineVars, bufferVars, paramVars, totalVars, localVars, pc >>

\* line 340: the drain is exhausted and the render pass is dropped
EndRenderPass ==
  /\ pc = "pass"
  /\ i = Len(offsets)
  /\ encoder' = Append(encoder, [op |-> "end_render_pass"])
  /\ pc' = "resolve"
  /\ UNCHANGED << pipelineVars, bufferVars, paramVars, totalVars, localVars, i >>

\* lines 342-344: the resolve step
Resolve ==
  /\ pc = "resolve"
  /\ encoder' = IF blit # None
                  THEN Append(encoder, [op |-> "blit_draw", target |-> Target])
                  ELSE encoder
  /\ pc' = "return"
  /\ UNCHANGED << pipelineVars, bufferVars, paramVars, totalVars, localVars, i >>

\* line 345: draw returns; its parameters and locals are dropped and the
\* encoder goes back to the caller
Return ==
  /\ pc = "return"
  /\ target_width' = 0
  /\ target_height' = 0
  /\ transformation' = Identity
  /\ meshes' = <<>>
  /\ bounds' = Rectangle(0, 0, 0, 0)
  /\ total_vertices' = 0
  /\ total_indices' = 0
  /\ uniforms' = <<>>
  /\ offsets' = <<>>
  /\ last_vertex' = 0
  /\ last_index' = 0
  /\ i' = 0
  /\ encoder' = <<>>
  /\ pc' = "idle"
  /\ UNCHANGED << pipelineVars, bufferVars >>

Next ==
  \/ Draw
  \/ EnsureUniforms
  \/ EnsureVertex
  \/ EnsureIndex
  \/ Locals
  \/ UploadItem
  \/ UploadUniforms
  \/ BeginRenderPass
  \/ DrawItem
  \/ EndRenderPass
  \/ Resolve
  \/ Return

Spec == Init /\ [][Next]_vars

\* ------------------------------------------------------- recorded commands
IsCopy(c) == c.op = "copy_buffer_to_buffer"
IsDrawIndexed(c) == c.op = "draw_indexed"
IsSetIndexBuffer(c) == c.op = "set_index_buffer"
IsSetVertexBuffers(c) == c.op = "set_vertex_buffers"
IsSetBindGroup(c) == c.op = "set_bind_group"

Copies == SelectSeq(encoder, IsCopy)
DrawsIndexed == SelectSeq(encoder, IsDrawIndexed)
IndexBinds == SelectSeq(encoder, IsSetIndexBuffer)
VertexBinds == SelectSeq(encoder, IsSetVertexBuffers)
GroupBinds == SelectSeq(encoder, IsSetBindGroup)

\* the upload loop has finished
Uploaded == pc \in { "targets", "pass", "resolve", "return" }
\* the render loop has finished
Rendered == pc \in { "resolve", "return" }

Max(a, b) == IF a >= b THEN a ELSE b

\* ------------------------------------------------------------------ C1
\* C1: the indexed draws recorded so far are one per item rendered, the k-th
\* of them is bound to the vertex offset, index offset and index count the
\* upload loop recorded for the k-th item of the list, and once the render
\* loop is over there are exactly as many draws as items.
C1_DrawsInListOrder ==
  pc \in { "pass", "resolve", "return" } =>
    LET draws == DrawsIndexed
        ibinds == IndexBinds
        vbinds == VertexBinds
    IN  /\ Len(draws) = i
        /\ Len(ibinds) = i
        /\ Len(vbinds) = i
        /\ Len(offsets) = Len(meshes)
        /\ Rendered => Len(draws) = Len(meshes)
        /\ \A k \in 1..i :
             /\ vbinds[k].offset = offsets[k][1]
             /\ ibinds[k].offset = offsets[k][2]
             /\ draws[k].end_index = offsets[k][3]
             /\ offsets[k][3] = meshes[k][2].indices

C1_Witness ==
  /\ pc = "return"
  /\ Len(meshes) = 2
  /\ meshes[1][2].indices # meshes[2][2].indices
  /\ Len(DrawsIndexed) = 2

\* ------------------------------------------------------------------ C2
\* C2: the destination offset of each per-item copy, and the offset recorded
\* for the item, is the running byte offset: 24 times the vertices of the
\* items before it, and 4 times the indices of the items before it.
C2_ByteOffsets ==
  LET copies == Copies
  IN  \A k \in 1..Len(offsets) :
        LET before == Totals(meshes, 1, k - 1)
        IN  /\ offsets[k][1] = SizeOfVertex2D * before[1]
            /\ offsets[k][2] = SizeOfU32 * before[2]
            /\ copies[2 * k - 1].dst_offset = SizeOfVertex2D * before[1]
            /\ copies[2 * k].dst_offset = SizeOfU32 * before[2]

\* ------------------------------------------------------------------ C3
EnsureCapacityContract(before, after, n) ==
  /\ before.size >= n => after = before
  /\ before.size < n =>
       /\ after.size = n
       /\ after.raw # before.raw
       /\ after.raw \notin
            { uniforms_buffer.raw, vertex_buffer.raw, index_buffer.raw }
  /\ after.size = Max(before.size, n)

\* C3: ensure_capacity(n) on a buffer of capacity c leaves capacity and
\* allocation alone when c >= n, and otherwise replaces the allocation by a
\* new one of capacity exactly n; either way the capacity becomes max(c, n).
C3_EnsureCapacity ==
  [][ /\ pc = "ensure_uniforms" =>
           EnsureCapacityContract(uniforms_buffer, uniforms_buffer',
                                  Len(meshes))
      /\ pc = "ensure_vertex" =>
           EnsureCapacityContract(vertex_buffer, vertex_buffer',
                                  Totals(meshes, 1, Len(meshes))[1])
      /\ pc = "ensure_index" =>
           EnsureCapacityContract(index_buffer, index_buffer',
                                  Totals(meshes, 1, Len(meshes))[2]) ]_vars

C3_Witness ==
  /\ pc = "locals"
  /\ uniforms_buffer.size = UNIFORM_BUFFER_SIZE + 1
  /\ uniforms_buffer.raw # 0
  /\ Len(meshes) = UNIFORM_BUFFER_SIZE + 1
  /\ vertex_buffer = BufferNew(1, VERTEX_BUFFER_SIZE)
  /\ total_vertices > 0

\* ------------------------------------------------------------------ C4
\* C4: from any state to the next, the capacity of the uniform, vertex and
\* index buffer never decreases; an ensure_capacity call asking for no more
\* than the capacity an earlier call left behind changes nothing.
C4_CapacityMonotonic ==
  [][ /\ uniforms_buffer'.size >= uniforms_buffer.size
      /\ vertex_buffer'.size >= vertex_buffer.size
      /\ index_buffer'.size >= index_buffer.size
      /\ (pc = "ensure_uniforms" /\ Len(meshes) <= uniforms_buffer.size) =>
           uniforms_buffer'.size = uniforms_buffer.size
      /\ (pc = "ensure_vertex" /\ total_vertices <= vertex_buffer.size) =>
           vertex_buffer'.size = vertex_buffer.size
      /\ (pc = "ensure_index" /\ total_indices <= index_buffer.size) =>
           index_buffer'.size = index_buffer.size ]_vars

\* a call asking for less than an earlier call obtained has been through
\* its three ensure_capacity calls
C4_Witness ==
  /\ pc = "locals"
  /\ Len(meshes) < UNIFORM_BUFFER_SIZE
  /\ uniforms_buffer.size > UNIFORM_BUFFER_SIZE
  /\ total_vertices < VERTEX_BUFFER_SIZE
  /\ vertex_buffer.size > VERTEX_BUFFER_SIZE
  /\ index_buffer.size > INDEX_BUFFER_SIZE

\* ------------------------------------------------------------------ C5
\* C5: once the three ensure_capacity calls of a draw call are over, hence
\* whenever a copy has been scheduled, the uniform buffer holds at least as
\* many elements as there are items, the vertex buffer at least the summed
\* vertex counts and the index buffer at least the summed index counts.
C5_CapacitySufficient ==
  /\ encoder # <<>> => pc \in { "upload", "targets", "pass", "resolve", "return" }
  /\ pc \in { "locals", "upload", "targets", "pass", "resolve", "return" } =>
       LET totals == Totals(meshes, 1, Len(meshes))
       IN  /\ uniforms_buffer.size >= Len(meshes)
           /\ vertex_buffer.size >= totals[1]
           /\ index_buffer.size >= totals[2]

C5_Witness ==
  /\ pc = "upload"
  /\ encoder = <<>>
  /\ Len(meshes) = 3
  /\ total_vertices > VERTEX_BUFFER_SIZE
  /\ vertex_buffer.size = total_vertices

\* ------------------------------------------------------------------ C6
\* the combined uniform upload: the copy into the uniform buffer
UniformCopies ==
  SelectSeq(encoder,
            LAMBDA c : IsCopy(c) /\ c.dst = uniforms_buffer.raw)

\* the product of t and the translation to o, written out: the translation
\* only changes the fourth column of t
TranslatedBy(t, o) ==
  [t EXCEPT ![4] = t[1] * o.x + t[2] * o.y + t[4],
            ![8] = t[5] * o.x + t[6] * o.y + t[8],
            ![12] = t[9] * o.x + t[10] * o.y + t[12],
            ![16] = t[13] * o.x + t[14] * o.y + t[16]]

\* C6: the k-th bind of the uniform group (k from 0) carries the dynamic
\* offset 64 * k, and entry k of the Uniforms array, as built and as
\* uploaded, is the transformation composed with the translation to the
\* origin of item k.
C6_DynamicOffsets ==
  LET binds == GroupBinds
      uploads == UniformCopies
  IN  /\ \A k \in 1..Len(binds) :
           binds[k].dynamic_offset = SizeOfUniforms * (k - 1)
      /\ \A k \in 1..Len(uniforms) :
           uniforms[k] = TranslatedBy(transformation, meshes[k][1])
      /\ \A u \in 1..Len(uploads) :
           /\ uploads[u].src.len = Len(meshes)
           /\ Len(uniforms) = Len(meshes)
           /\ uploads[u].src.data = uniforms

C6_Witness ==
  /\ pc = "return"
  /\ Len(meshes) = 2
  /\ meshes[1][1] # meshes[2][1]
  /\ transformation # Identity
  /\ Len(GroupBinds) = 2
  /\ GroupBinds[2].dynamic_offset = 64
  /\ Len(UniformCopies) = 1

\* ------------------------------------------------------------------ C7
\* the index counts of triples lo..hi, summed by halves
RECURSIVE SumIndexCounts(_, _, _)
SumIndexCounts(offs, lo, hi) ==
  IF lo > hi THEN 0
  ELSE IF lo = hi THEN offs[lo][3]
  ELSE LET mid == (lo + hi) \div 2
       IN  SumIndexCounts(offs, lo, mid) + SumIndexCounts(offs, mid + 1, hi)

\* C7: when the upload loop has finished there is one triple per item, the
\* index counts of the triples add up to the precomputed total index count,
\* and the running vertex and index offsets have reached the precomputed
\* totals handed to ensure_capacity.
C7_TotalsAgree ==
  (Uploaded \/ (pc = "upload" /\ Len(uniforms) = Len(meshes))) =>
    /\ Len(offsets) = Len(meshes)
    /\ SumIndexCounts(offsets, 1, Len(offsets)) = total_indices
    /\ last_vertex = total_vertices
    /\ last_index = total_indices

C7_Witness ==
  /\ pc = "targets"
  /\ Len(meshes) = 2
  /\ meshes[1][2] # meshes[2][2]
  /\ total_vertices # total_indices
  /\ last_index = total_indices
  /\ total_vertices = 7

\* ------------------------------------------------------------------ C8
\* C8 as stated: a draw call with an empty list has recorded, when it
\* returns, no indexed draw and no copy_buffer_to_buffer at all.
C8_NoCopyAtAll ==
  (pc = "return" /\ meshes = <<>>) =>
    /\ Len(DrawsIndexed) = 0
    /\ Len(Copies) = 0

\* C8, amended: a draw call with an empty list records no indexed draw and
\* no copy into the vertex or index buffer, and changes no capacity and no
\* allocation; it still records exactly one copy_buffer_to_buffer, the
\* combined uniform upload, of 0 bytes.
C8_EmptyList ==
  /\ [](  (pc # "idle" /\ meshes = <<>>) =>
            LET copies == Copies
            IN  /\ Len(DrawsIndexed) = 0
                /\ Len(copies) = IF Uploaded THEN 1 ELSE 0
                /\ \A c \in 1..Len(copies) :
                     /\ copies[c].dst = uniforms_buffer.raw
                     /\ copies[c].dst_offset = 0
                     /\ copies[c].size = 0
                     /\ copies[c].src = Staging(0, <<>>)  )
  /\ [][ (pc # "idle" /\ meshes = <<>>) =>
            /\ uniforms_buffer' = uniforms_buffer
            /\ vertex_buffer' = vertex_buffer
            /\ index_buffer' = index_buffer ]_vars

C8_Witness ==
  /\ pc = "return"
  /\ meshes = <<>>
  /\ Len(Copies) = 1
  /\ Len(DrawsIndexed) = 0

\* ------------------------------------------------------------------ C9
IsBeginRenderPass(c) == c.op = "begin_render_pass"
IsBlitDraw(c) == c.op = "blit_draw"

\* C9: built without antialiasing, the pipeline has sample count 1, the
\* render pass loads the caller's target, has no resolve target, and no
\* resolve step is recorded; built with Some(a), the pipeline has a's sample
\* count, the render pass clears the resolver's attachment of the target's
\* size, and the resolve step is recorded exactly once, last, right after
\* the render pass has ended.
C9_AntialiasingRouting ==
  LET passes == SelectSeq(encoder, IsBeginRenderPass)
      resolves == SelectSeq(encoder, IsBlitDraw)
  IN  /\ Len(passes) <= 1
      /\ antialiasing = None =>
           /\ pipeline.sample_count = 1
           /\ Len(resolves) = 0
           /\ \A p \in 1..Len(passes) :
                /\ passes[p].attachment = Target
                /\ passes[p].resolve_target = None
                /\ passes[p].load_op = "Load"
      /\ antialiasing # None =>
           /\ pipeline.sample_count = Unwrap(antialiasing)
           /\ \A p \in 1..Len(passes) :
                /\ passes[p].attachment.view = "attachment"
                /\ passes[p].attachment.width = target_width
                /\ passes[p].attachment.height = target_height
                /\ passes[p].attachment.sample_count = Unwrap(antialiasing)
                /\ passes[p].resolve_target # None
                /\ passes[p].load_op = "Clear"
           /\ Len(resolves) = IF pc = "return" THEN 1 ELSE 0
           /\ pc = "return" =>
                /\ encoder[Len(encoder)] = [op |-> "blit_draw", target |-> Target]
                /\ encoder[Len(encoder) - 1].op = "end_render_pass"

C9_Witness ==
  /\ pc = "return"
  /\ antialiasing = Some(4)
  /\ Len(meshes) = 2
  /\ encoder[Len(encoder)].op = "blit_draw"
  /\ target_width = 64

\* ----------------------------------------------------------------- C10
\* C10: nothing is recorded before the three ensure_capacity calls are
\* over; the vertex copies and the index copies are scheduled one per item
\* in list order; the uniform data goes in one single copy, scheduled right
\* after the last per-item copy; and all copies come before the render pass
\* begins and before any indexed draw.
C10_EventOrder ==
  LET copies == Copies
      vcopies == SelectSeq(encoder,
                           LAMBDA c : IsCopy(c) /\ c.dst = vertex_buffer.raw)
      icopies == SelectSeq(encoder,
                           LAMBDA c : IsCopy(c) /\ c.dst = index_buffer.raw)
      ucopies == UniformCopies
  IN  /\ pc \in { "idle", "ensure_uniforms", "ensure_vertex", "ensure_index",
                  "locals" } => encoder = <<>>
      /\ Len(vcopies) = Len(uniforms)
      /\ Len(icopies) = Len(uniforms)
      /\ \A k \in 1..Len(vcopies) :
           /\ vcopies[k].src =
                Staging(meshes[k][2].vertices, << meshes[k][2].id, "vertices" >>)
           /\ vcopies[k].size = SizeOfVertex2D * meshes[k][2].vertices
           /\ icopies[k].src =
                Staging(meshes[k][2].indices, << meshes[k][2].id, "indices" >>)
           /\ icopies[k].size = SizeOfU32 * meshes[k][2].indices
      /\ Len(ucopies) = IF Uploaded THEN 1 ELSE 0
      /\ Len(copies) = Len(vcopies) + Len(icopies) + Len(ucopies)
      /\ Uploaded =>
           /\ Len(copies) = 2 * Len(meshes) + 1
           /\ copies[Len(copies)] = ucopies[1]
      /\ \A p \in 1..Len(encoder) :
           IF IsCopy(encoder[p])
             THEN p = 1 \/ IsCopy(encoder[p - 1])
             ELSE Uploaded /\ p > 2 * Len(meshes) + 1

C10_Witness ==
  /\ pc = "return"
  /\ Len(meshes) = 2
  /\ meshes[1][2] # meshes[2][2]
  /\ Len(Copies) = 5
  /\ Len(DrawsIndexed) = 2

\* ----------------------------------------------------------------- C11
\* C11: a draw call with a single item (origin o, mesh m) records exactly
\* one indexed draw, over indices 0..m.indices.len(), with vertex offset 0,
\* index offset 0 and uniform dynamic offset 0, and uploads a single
\* Uniforms entry, the transformation composed with translate(o.x, o.y):
\* translate(10, 20) for the identity and o = (10, 20).
C11_SingleItem ==
  (Len(meshes) = 1 /\ Rendered) =>
    LET draws == DrawsIndexed
        vbinds == VertexBinds
        ibinds == IndexBinds
        gbinds == GroupBinds
        uploads == UniformCopies
        o == meshes[1][1]
        m == meshes[1][2]
    IN  /\ Len(draws) = 1
        /\ draws[1].first_index = 0
        /\ draws[1].end_index = m.indices
        /\ Len(vbinds) = 1
        /\ vbinds[1].offset = 0
        /\ Len(ibinds) = 1
        /\ ibinds[1].offset = 0
        /\ Len(gbinds) = 1
        /\ gbinds[1].dynamic_offset = 0
        /\ Len(uploads) = 1
        /\ uploads[1].src.len = 1
        /\ uploads[1].src.data = << TranslatedBy(transformation, o) >>
        /\ (transformation = Identity /\ o = Point(10, 20)) =>
             uploads[1].src.data = << << 1, 0, 0, 10,
                                         0, 1, 0, 20,
                                         0, 0, 1, 0,
                                         0, 0, 0, 1 >> >>

C11_Witness ==
  /\ pc = "return"
  /\ meshes = << ItemA >>
  /\ transformation = Identity
  /\ Len(DrawsIndexed) = 1
  /\ DrawsIndexed[1].end_index = 3
  /\ UniformCopies[1].src.data[1][4] = 10
  /\ UniformCopies[1].src.data[1][8] = 20

\* ----------------------------------------------------------------- C12
\* the byte range [dst_offset, dst_offset + size) a copy writes
Disjoint(c, d) ==
  \/ c.dst_offset + c.size <= d.dst_offset
  \/ d.dst_offset + d.size <= c.dst_offset

\* C12: the byte ranges written by the vertex copies of two different items
\* never overlap in the vertex buffer, nor those written by their index
\* copies in the index buffer.
C12_RangesDisjoint ==
  LET vcopies == SelectSeq(encoder,
                           LAMBDA c : IsCopy(c) /\ c.dst = vertex_buffer.raw)
      icopies == SelectSeq(encoder,
                           LAMBDA c : IsCopy(c) /\ c.dst = index_buffer.raw)
  IN  /\ \A j, k \in 1..Len(vcopies) :
           j < k => Disjoint(vcopies[j], vcopies[k])
      /\ \A j, k \in 1..Len(icopies) :
           j < k => Disjoint(icopies[j], icopies[k])

\* ----------------------------------------------------------------- C13
\* C13: the uniform bind group bound for the draws of a call refers to the
\* allocation the combined uniform upload of that call was copied into.
C13_BindGroupAllocation ==
  LET gbinds == GroupBinds
      uploads == UniformCopies
  IN  \A k \in 1..Len(gbinds) :
        /\ Len(uploads) = 1
        /\ gbinds[k].group.buffer = uploads[1].dst

\* ----------------------------------------------------------------- C14
\* the size in bytes of the buffer a copy writes to, and 0 for a copy into
\* an allocation none of the three buffers holds
DestinationBytes(c) ==
  IF c.dst = vertex_buffer.raw THEN SizeOfVertex2D * vertex_buffer.size
  ELSE IF c.dst = index_buffer.raw THEN SizeOfU32 * index_buffer.size
  ELSE IF c.dst = uniforms_buffer.raw THEN SizeOfUniforms * uniforms_buffer.size
  ELSE 0

\* C14: every copy scheduled by draw ends inside its destination buffer:
\* destination offset plus size is at most the capacity in bytes, with 24
\* bytes per vertex, 4 per index and 64 per Uniforms entry.
C14_CopiesInBounds ==
  LET copies == Copies
  IN  \A k \in 1..Len(copies) :
        /\ copies[k].dst_offset >= 0
        /\ copies[k].dst_offset + copies[k].size <= DestinationBytes(copies[k])
        /\ copies[k].size = copies[k].src.len *
             (IF copies[k].dst = vertex_buffer.raw THEN SizeOfVertex2D
              ELSE IF copies[k].dst = index_buffer.raw THEN SizeOfU32
              ELSE SizeOfUniforms)

C14_Witness ==
  /\ pc = "targets"
  /\ meshes = HeavyList
  /\ Len(Copies) = 7
  /\ vertex_buffer.size = total_vertices
  /\ index_buffer.size = total_indices
  /\ index_buffer.size > INDEX_BUFFER_SIZE

\* ----------------------------------------------------------------- C15
\* C15: a draw call begins exactly one render pass, after its copies, and
\* inside it the k-th indexed draw comes right after, in this order, the
\* bind of the pipeline, of the uniform group, of the index buffer and of
\* the vertex buffer for item k and the scissor rectangle set to the clip
\* rectangle; it covers indices 0..indexCount with base vertex 0 and the
\* instances 0..1.  The pass is ended after the last draw.
C15_RenderPassCommands ==
  LET begin == 2 * Len(meshes) + 2
      passes == SelectSeq(encoder, IsBeginRenderPass)
      draws == DrawsIndexed
  IN  /\ Len(passes) = IF pc \in { "pass", "resolve", "return" } THEN 1 ELSE 0
      /\ Len(draws) = IF pc \in { "pass", "resolve", "return" } THEN i ELSE 0
      /\ pc \in { "pass", "resolve", "return" } =>
           /\ IsBeginRenderPass(encoder[begin])
           /\ Rendered =>
                /\ i = Len(meshes)
                /\ encoder[begin + 6 * i + 1].op = "end_render_pass"
           /\ \A k \in 1..i :
                LET p == begin + 6 * k
                IN  /\ encoder[p - 5] =
                         [op |-> "set_pipeline", pipeline |-> pipeline]
                    /\ encoder[p - 4] =
                         [op |-> "set_bind_group", index |-> 0,
                          group |-> constants,
                          dynamic_offset |-> SizeOfUniforms * (k - 1)]
                    /\ encoder[p - 3] =
                         [op |-> "set_index_buffer",
                          buffer |-> index_buffer.raw,
                          offset |-> offsets[k][2]]
                    /\ encoder[p - 2] =
                         [op |-> "set_vertex_buffers", slot |-> 0,
                          buffer |-> vertex_buffer.raw,
                          offset |-> offsets[k][1]]
                    /\ encoder[p - 1] =
                         [op |-> "set_scissor_rect", x |-> bounds.x,
                          y |-> bounds.y, width |-> bounds.width,
                          height |-> bounds.height]
                    /\ encoder[p] =
                         [op |-> "draw_indexed", first_index |-> 0,
                          end_index |-> meshes[k][2].indices,
                          base_vertex |-> 0, first_instance |-> 0,
                          end_instance |-> 1]

C15_Witness ==
  /\ pc = "return"
  /\ Len(meshes) = 2
  /\ bounds = Rectangle(1, 2, 30, 40)
  /\ Len(DrawsIndexed) = 2
  /\ encoder[11].op = "set_scissor_rect"
  /\ encoder[12].op = "draw_indexed"

\* ----------------------------------------------------------------- C16
EnsureSteps == { "ensure_uniforms", "ensure_vertex", "ensure_index" }

\* C16: the capacity and the allocation of the three buffers change only in
\* the ensure_capacity steps of a draw call, each step touching its own
\* buffer only; from the upload loop to the return they stay as they are,
\* and the item list with its meshes is the same from the call to the point
\* of return.
C16_Frame ==
  [][ /\ pc \notin EnsureSteps =>
           /\ uniforms_buffer' = uniforms_buffer
           /\ vertex_buffer' = vertex_buffer
           /\ index_buffer' = index_buffer
      /\ pc # "ensure_uniforms" => uniforms_buffer' = uniforms_buffer
      /\ pc # "ensure_vertex" => vertex_buffer' = vertex_buffer
      /\ pc # "ensure_index" => index_buffer' = index_buffer
      /\ pc \notin { "idle", "return" } => meshes' = meshes ]_vars

C16_Witness ==
  /\ pc = "return"
  /\ meshes = HeavyList
  /\ vertex_buffer = [raw |-> 3, size |-> 120003]
  /\ index_buffer = [raw |-> 4, size |-> 180003]
  /\ uniforms_buffer = BufferNew(0, UNIFORM_BUFFER_SIZE)

\* ----------------------------------------------------------------- C17
\* a recorded command without the allocations it names: a copy keeps which
\* of the three buffers it writes, a bind keeps its offsets
Erased(c) ==
  IF c.op = "copy_buffer_to_buffer"
    THEN [op |-> c.op, src |-> c.src, src_offset |-> c.src_offset,
          into |-> IF c.dst = vertex_buffer.raw THEN "vertex"
                   ELSE IF c.dst = index_buffer.raw THEN "index"
                   ELSE IF c.dst = uniforms_buffer.raw THEN "uniforms"
                   ELSE "other",
          dst_offset |-> c.dst_offset, size |-> c.size]
  ELSE IF c.op = "set_bind_group"
    THEN [op |-> c.op, index |-> c.index, range |-> c.group.range,
          dynamic_offset |-> c.dynamic_offset]
  ELSE IF c.op = "set_index_buffer"
    THEN [op |-> c.op, offset |-> c.offset]
  ELSE IF c.op = "set_vertex_buffers"
    THEN [op |-> c.op, slot |-> c.slot, offset |-> c.offset]
  ELSE c

\* what a draw call records, allocations left out, written as a function of
\* the antialiasing configuration and the inputs of the call alone: no
\* buffer, capacity or other state of the pipeline occurs in it
Recorded(aa, ms, t, w, h, b) ==
  LET n == Len(ms)
      begin == 2 * n + 2
      last == 8 * n + 3
      copy(k) ==
        LET j == (k + 1) \div 2
            before == Totals(ms, 1, j - 1)
            mesh == ms[j][2]
        IN  IF k % 2 = 1
              THEN [op |-> "copy_buffer_to_buffer",
                    src |-> [len |-> mesh.vertices,
                             data |-> << mesh.id, "vertices" >>],
                    src_offset |-> 0, into |-> "vertex",
                    dst_offset |-> before[1],
                    size |-> SizeOfVertex2D * mesh.vertices]
              ELSE [op |-> "copy_buffer_to_buffer",
                    src |-> [len |-> mesh.indices,
                             data |-> << mesh.id, "indices" >>],
                    src_offset |-> 0, into |-> "index",
                    dst_offset |-> before[2],
                    size |-> SizeOfU32 * mesh.indices]
      upload ==
        [op |-> "copy_buffer_to_buffer",
         src |-> [len |-> n,
                  data |-> [k \in 1..n |-> TranslatedBy(t, ms[k][1])]],
         src_offset |-> 0, into |-> "uniforms", dst_offset |-> 0,
         size |-> SizeOfUniforms * n]
      pass ==
        IF aa = None
          THEN [op |-> "begin_render_pass", attachment |-> Target,
                resolve_target |-> None, load_op |-> "Load",
                store_op |-> "Store"]
          ELSE [op |-> "begin_render_pass",
                attachment |-> [view |-> "attachment", width |-> w,
                                height |-> h, sample_count |-> Unwrap(aa)],
                resolve_target |-> Some([view |-> "resolve", width |-> w,
                                         height |-> h, sample_count |-> 1]),
                load_op |-> "Clear", store_op |-> "Store"]
      command(q) ==
        LET k == ((q - 1) \div 6) + 1
            r == (q - 1) % 6
            before == Totals(ms, 1, k - 1)
        IN  CASE r = 0 -> [op |-> "set_pipeline",
                           pipeline |-> [sample_count |->
                                           IF aa = None THEN 1 ELSE Unwrap(aa)]]
              [] r = 1 -> [op |-> "set_bind_group", index |-> 0,
                           range |-> << 0, SizeOfUniforms >>,
                           dynamic_offset |-> SizeOfUniforms * (k - 1)]
              [] r = 2 -> [op |-> "set_index_buffer", offset |-> before[2]]
              [] r = 3 -> [op |-> "set_vertex_buffers", slot |-> 0,
                           offset |-> before[1]]
              [] r = 4 -> [op |-> "set_scissor_rect", x |-> b.x, y |-> b.y,
                           width |-> b.width, height |-> b.height]
              [] r = 5 -> [op |-> "draw_indexed", first_index |-> 0,
                           end_index |-> ms[k][2].indices, base_vertex |-> 0,
                           first_instance |-> 0, end_instance |-> 1]
  IN  [p \in 1..(IF aa = None THEN last ELSE last + 1) |->
         IF p < begin - 1 THEN copy(p)
         ELSE IF p = begin - 1 THEN upload
         ELSE IF p = begin THEN pass
         ELSE IF p < last THEN command(p - begin)
         ELSE IF p = last THEN [op |-> "end_render_pass"]
         ELSE [op |-> "blit_draw", target |-> Target]]

\* C17: what a draw call has recorded when it returns (the copies with their
\* offsets and sizes, the uniforms, the binds and indexed draws with their
\* offsets, dynamic offsets and index counts) is determined by the
\* antialiasing configuration and the inputs of the call, whatever draw
\* calls the pipeline has been through: two pipelines with different
\* histories record the same for the same inputs, up to the allocations.
C17_HistoryIndependent ==
  pc = "return" =>
    /\ Len(encoder) = Len(Recorded(antialiasing, meshes, transformation,
                                   target_width, target_height, bounds))
    /\ [p \in 1..Len(encoder) |-> Erased(encoder[p])] =
         Recorded(antialiasing, meshes, transformation, target_width,
                  target_height, bounds)
    /\ uniforms = [k \in 1..Len(meshes) |->
                     TranslatedBy(transformation, meshes[k][1])]

\* a call returns on a pipeline whose three buffers were all reallocated by
\* earlier calls
C17_Witness ==
  /\ pc = "return"
  /\ Len(meshes) = 2
  /\ meshes[1] # meshes[2]
  /\ uniforms_buffer.size > UNIFORM_BUFFER_SIZE
  /\ vertex_buffer.size > VERTEX_BUFFER_SIZE
  /\ index_buffer.size > INDEX_BUFFER_SIZE

====
